---- MODULE Spec2Model ----
(***************************************************************************)
(* A model of flask_serialize.FlaskSerializeMixin: the reflection-driven   *)
(* serialization of a model instance, the update pipeline and the CRUD     *)
(* dispatcher fs_get_delete_put_post, for one SQLAlchemy model class.      *)
(***************************************************************************)
EXTENDS Integers, Sequences, FiniteSets, TLC

\* ------------------------------------------------------------------ bounds
\* primary keys handed out by the database: 1..MaxId
MaxId == 1

\* rows of the table a list request is served from: 0..MaxItems
MaxItems == 3

\* ---------------------------------------------------------- Python values
\* A Python value: its runtime type t, its number n (int, float, bool) and its
\* text s, a sequence of tokens (str).
None == [t |-> "none", n |-> 0, s |-> <<>>]
IntV(i) == [t |-> "int", n |-> i, s |-> <<>>]
FloatV(i) == [t |-> "float", n |-> i, s |-> <<>>]
BoolV(b) == [t |-> "bool", n |-> IF b THEN 1 ELSE 0, s |-> <<>>]
StrV(toks) == [t |-> "str", n |-> 0, s |-> toks]

\* the result of a call: a value, or a raised exception with its text
Ok(v) == [ok |-> TRUE, v |-> v, exc |-> <<>>]
Raise(text) == [ok |-> FALSE, v |-> None, exc |-> text]

Digits == <<"0", "1", "2", "3", "4", "5", "6", "7", "8", "9">>

\* str(v)
PyStr(v) ==
    CASE v.t = "none" -> StrV(<<"None">>)
      [] v.t = "int" -> StrV(<<Digits[v.n + 1]>>)
      [] v.t = "float" -> StrV(<<Digits[v.n + 1], ".0">>)
      [] v.t = "bool" -> StrV(<<IF v.n = 1 THEN "True" ELSE "False">>)
      [] OTHER -> v

\* float(v): a number converts, a string converts when it spells a number
PyFloat(v) ==
    CASE v.t \in {"int", "float", "bool"} -> Ok(FloatV(v.n))
      [] v.t = "str" ->
            IF Len(v.s) = 1 /\ \E i \in 1..Len(Digits) : Digits[i] = v.s[1]
            THEN Ok(FloatV((CHOOSE i \in 1..Len(Digits) : Digits[i] = v.s[1]) - 1))
            ELSE Raise(<<"could not convert string to float: ">> \o v.s)
      [] OTHER -> Raise(<<"float() argument must be a string or a number">>)

\* a == b in Python: numbers compare by value, strings by text
PyEq(a, b) ==
    CASE a.t \in {"int", "float", "bool"} /\ b.t \in {"int", "float", "bool"} -> a.n = b.n
      [] a.t = "str" /\ b.t = "str" -> a.s = b.s
      [] OTHER -> a.t = b.t

\* a < b in Python 3: defined between numbers and between strings only
PyComparable(a, b) ==
    \/ a.t \in {"int", "float", "bool"} /\ b.t \in {"int", "float", "bool"}
    \/ a.t = "str" /\ b.t = "str"

\* bool(v)
Truthy(v) ==
    CASE v.t = "none" -> FALSE
      [] v.t \in {"int", "float", "bool"} -> v.n # 0
      [] OTHER -> v.s # <<>>

\* a dict: a function from its keys
EmptyDict == [k \in {} |-> None]
DictSet(d, k, v) == [x \in DOMAIN d \cup {k} |-> IF x = k THEN v ELSE d[x]]
DictGet(d, k) == IF k \in DOMAIN d THEN d[k] ELSE None

SeqToSet(q) == {q[i] : i \in 1..Len(q)}

\* ------------------------------------------------------- the model class
\* The class attributes of FlaskSerializeMixin a model class may override.
DefaultConfig ==
    [exclude_serialize_fields |-> <<>>,
     exclude_json_serialize_fields |-> <<>>,
     update_fields |-> <<>>,
     create_fields |-> <<>>,
     order_by_field |-> "",
     order_by_field_desc |-> "",
     private_fields |-> {},
     can_delete |-> "default"]

fs_http_error_code == 400
fs_timestamp_fields == <<"updated", "timestamp">>
fs_relationship_fields == <<>>
fs_update_properties == <<>>
fs_json_types == {"str", "dict", "list", "int", "float", "bool"}

\* The table of the model class: columns id, name and rank, as SQLAlchemy
\* reports them (name, declared type, python type, primary-key flag).
TableName == "setting"
TableColumns ==
    << [name |-> "id", type |-> <<"INTEGER">>, python_type |-> "int",
        primary_key |-> TRUE, is_column |-> TRUE],
       [name |-> "name", type |-> <<"VARCHAR", "(", "30", ")">>, python_type |-> "str",
        primary_key |-> FALSE, is_column |-> TRUE],
       [name |-> "rank", type |-> <<"NUMERIC">>, python_type |-> "Decimal",
        primary_key |-> FALSE, is_column |-> TRUE] >>
DialectIsSqlite == TRUE
\* dir(cls) restricted to the properties: those of the mixin and the class's own
ClassProperties == <<"fs_as_dict", "fs_as_json", "label">>

ColumnNames == {TableColumns[i].name : i \in 1..Len(TableColumns)}

\* The table of a second model class that uses the mixin: a name, a flag, a
\* datetime, a blob and a date. The class defines no property of its own.
EventTableName == "event"
EventColumns ==
    << [name |-> "id", type |-> <<"INTEGER">>, python_type |-> "int",
        primary_key |-> TRUE, is_column |-> TRUE],
       [name |-> "name", type |-> <<"VARCHAR", "(", "30", ")">>, python_type |-> "str",
        primary_key |-> FALSE, is_column |-> TRUE],
       [name |-> "done", type |-> <<"BOOLEAN">>, python_type |-> "bool",
        primary_key |-> FALSE, is_column |-> TRUE],
       [name |-> "at", type |-> <<"DATETIME">>, python_type |-> "datetime",
        primary_key |-> FALSE, is_column |-> TRUE],
       [name |-> "data", type |-> <<"BLOB">>, python_type |-> "bytes",
        primary_key |-> FALSE, is_column |-> TRUE],
       [name |-> "day", type |-> <<"DATE">>, python_type |-> "date",
        primary_key |-> FALSE, is_column |-> TRUE] >>
EventProperties == <<"fs_as_dict", "fs_as_json">>
EventColumnNames == {EventColumns[i].name : i \in 1..Len(EventColumns)}

\* self.__table__ of an instance, its columns, and the properties of its class
TableOf(item) == item.table
ColumnsOf(table) == IF table = EventTableName THEN EventColumns ELSE TableColumns
PropertiesOf(table) == IF table = EventTableName THEN EventProperties ELSE ClassProperties

VARIABLES
    cfg,            \* the model class's configuration (class attributes, hooks)
    rows,           \* the instances the session holds, in query order
    next_id,        \* the next primary key the database hands out
    model_props,    \* FlaskSerializeMixin.__model_props: table -> properties
    convert_types,  \* FlaskSerializeMixin.__fs_convert_types__
    prev_values,    \* FlaskSerializeMixin.__fs_previous_field_value__
    req,            \* the request being served (without its body)
    calls,          \* the hooks and session calls of the request, in order
    resp,           \* the response returned
    direct,         \* the last call made on an instance outside a request
    recorded,       \* per instance, its values before its last fs_update_from_dict
    threads,        \* the threads inside __get_props: position, table, locals
    column_attrs    \* c_type and converter, as set on the Column objects of a table

vars == <<cfg, rows, next_id, model_props, convert_types, prev_values, req, calls, resp,
          direct, recorded, threads, column_attrs>>

\* The shared state of the process: the class attributes every instance mutates.
ProcState(mp, ct, pv) == [model_props |-> mp, convert_types |-> ct, prev_values |-> pv]

\* ------------------------------------------------------------ the hooks
\* An instance: its attributes and what its access hooks answer for it.
fs_can_access(item) == item.can_access
fs_can_update(item) == item.can_update
fs_private_field(item, field_name) == field_name \in cfg.private_fields

\* getattr(self, name): a column's value, or the value of the property label,
\* which returns self.name
GetAttr(item, name) ==
    IF name \in DOMAIN item.attrs THEN Ok(item.attrs[name])
    ELSE IF name = "label" /\ name \in SeqToSet(PropertiesOf(TableOf(item)))
    THEN Ok(item.attrs["name"])
    ELSE Raise(<<"object has no attribute ", name>>)
HasAttr(item, name) == GetAttr(item, name).ok

\* ------------------------------------------------------- the converters
fs_to_date_short(v) == Ok(PyStr(v))

fs_property_converter(v) ==
    IF v.t = "none" THEN Ok(None)
    ELSE IF v.t \notin fs_json_types THEN Ok(PyStr(v))
    ELSE Ok(v)

lob_converter(v) ==
    IF ~Truthy(v) THEN Ok(StrV(<<>>))
    ELSE IF v.t = "bytes" THEN Ok(StrV(v.s))
    ELSE Raise(<<"object has no attribute 'decode'">>)

\* c.converter(v), by the converter's name
ApplyConverter(converter, v) ==
    CASE converter = "float" -> PyFloat(v)
      [] converter = "str" -> Ok(PyStr(v))
      [] converter = "fs_to_date_short" -> fs_to_date_short(v)
      [] converter = "fs_property_converter" -> fs_property_converter(v)
      [] converter = "lob_converter" -> lob_converter(v)
      [] OTHER -> Raise(<<"object is not iterable">>)

\* props.converters before the custom converters are added
BuiltinConverters ==
    [c \in {"DATETIME", "PROPERTY", "RELATIONSHIP", "NUMERIC", "DECIMAL", "LOB", "BLOB", "CLOB"} |->
        CASE c = "DATETIME" -> "fs_to_date_short"
          [] c = "PROPERTY" -> "fs_property_converter"
          [] c = "RELATIONSHIP" -> "relationship_converter"
          [] c \in {"NUMERIC", "DECIMAL"} -> "float"
          [] OTHER -> "lob_converter"]
fs_column_type_converters == [c \in {} |-> ""]

\* str(f.type).split('(')[0]: the declared type's name, before its arguments
SplitParen(type) == IF type = <<>> \/ Head(type) = "(" THEN "" ELSE Head(type)

\* ------------------------------------------------ the schema introspector
PropertyField(p, kind) ==
    [name |-> p, type |-> <<kind>>, python_type |-> "", primary_key |-> FALSE, is_column |-> FALSE]

\* one field of field_list: its c_type and its converter ("" is None)
DescribeField(f, converters) ==
    LET c_type == SplitParen(f.type)
        found == IF c_type \in DOMAIN converters THEN converters[c_type] ELSE ""
    IN [name |-> f.name, c_type |-> c_type, is_column |-> f.is_column,
        converter |-> IF found # "" THEN found
                      ELSE IF f.python_type \notin fs_json_types THEN "str" ELSE ""]

\* the properties __get_props builds for the table on its first access (without
\* props.id, the primary key of the instance that built them, which only the
\* unused __json_api_dict reads)
BuildProps(item) ==
    LET exclude_fields == <<"fs_as_dict", "fs_as_json">> \o cfg.exclude_serialize_fields
        excluded == {exclude_fields[i] : i \in 1..Len(exclude_fields)}
        columns == ColumnsOf(TableOf(item))
        properties == PropertiesOf(TableOf(item))
        pks == {i \in 1..Len(columns) : columns[i].primary_key}
        pk == IF pks = {} THEN 0 ELSE CHOOSE i \in pks : \A j \in pks : i <= j
        field_list ==
            columns
            \o [i \in 1..Len(properties) |-> PropertyField(properties[i], "PROPERTY")]
            \o [i \in 1..Len(fs_relationship_fields) |->
                    PropertyField(fs_relationship_fields[i], "RELATIONSHIP")]
        converters ==
            [c \in DOMAIN BuiltinConverters \cup DOMAIN fs_column_type_converters |->
                IF c \in DOMAIN fs_column_type_converters
                THEN fs_column_type_converters[c] ELSE BuiltinConverters[c]]
        kept == SelectSeq(field_list, LAMBDA f : f.name \notin excluded)
    IN [name |-> TableOf(item),
        primary_key_field |-> IF pk = 0 THEN "id" ELSE columns[pk].name,
        DIALECT |-> IF DialectIsSqlite THEN "sqlite" ELSE "",
        field_list |-> [i \in 1..Len(kept) |-> DescribeField(kept[i], converters)]]

sqlite_date_rule == [type |-> "datetime", method |-> "sqlite_date_converter"]

\* __get_props: the cached properties of the table, built and cached on the
\* first access, which also appends the sqlite date rule to the shared
\* __fs_convert_types__
get_props(p, item) ==
    IF TableOf(item) \in DOMAIN p.model_props
    THEN [props |-> p.model_props[TableOf(item)], p |-> p]
    ELSE LET Cache(props) ==
                 [props |-> props,
                  p |-> [p EXCEPT !.model_props = DictSet(@, TableOf(item), props),
                                  !.convert_types =
                                      IF DialectIsSqlite THEN Append(@, sqlite_date_rule) ELSE @]]
         IN Cache(BuildProps(item))

\* __get_fields: the fields of the table that are not private
get_fields(p, item) ==
    LET Fields(r) ==
            [fields |-> SelectSeq(r.props.field_list, LAMBDA c : ~fs_private_field(item, c.name)),
             props_pk |-> r.props.primary_key_field,
             p |-> r.p]
    IN Fields(get_props(p, item))

\* ---------------------------------------------------------- serialization
\* a variant whose message leaves the name of the field out
ConvertErrorWithoutName(exc, c) ==
    StrV(<<"Error:", "\"">> \o exc \o <<"\". Failed to convert type:", c.c_type>>)

ConvertError(exc, c) ==
    StrV(<<"Error:", "\"">> \o exc \o <<"\". Failed to convert [", c.name, "] type:", c.c_type>>)

\* a variant of the pass that applies the converter before it looks for None
AsDictFieldConverterFirst(item, c, d) ==
    LET Converted(d1, conv) ==
            IF conv.ok THEN DictSet(d1, c.name, conv.v)
            ELSE DictSet(d1, c.name, ConvertError(conv.exc, c))
        Assign(read, v, d1) ==
            IF c.converter # "" THEN Converted(d1, ApplyConverter(c.converter, v))
            ELSE IF v = None THEN DictSet(d1, c.name, StrV(<<>>))
            ELSE d1
        Read(read) ==
            Assign(read, IF read.ok THEN read.v ELSE StrV(read.exc),
                   IF read.ok THEN DictSet(d, c.name, read.v) ELSE d)
    IN Read(GetAttr(item, c.name))

\* one pass of the loop of fs_as_dict: field c of the instance, into d
AsDictField(item, c, d) ==
    LET Converted(d1, conv) ==
            IF conv.ok THEN DictSet(d1, c.name, conv.v)
            ELSE DictSet(d1, c.name, ConvertError(conv.exc, c))
        Assign(read, v, d1) ==
            IF v = None THEN DictSet(d1, c.name, StrV(<<>>))
            ELSE IF c.converter # "" THEN Converted(d1, ApplyConverter(c.converter, v))
            ELSE d1
        Read(read) ==
            Assign(read, IF read.ok THEN read.v ELSE StrV(read.exc),
                   IF read.ok THEN DictSet(d, c.name, read.v) ELSE d)
    IN Read(GetAttr(item, c.name))

RECURSIVE AsDictLoop(_, _, _)
AsDictLoop(item, fields, d) ==
    IF fields = <<>> THEN d
    ELSE AsDictLoop(item, Tail(fields), AsDictField(item, Head(fields), d))

\* fs_as_dict: the instance as a dict of its exposed fields
fs_as_dict(p, item) ==
    LET Serialize(r) == [d |-> AsDictLoop(item, r.fields, EmptyDict), p |-> r.p]
    IN Serialize(get_fields(p, item))

\* __as_exclude_json_dict: fs_as_dict without the fields excluded from JSON
as_exclude_json_dict(p, item) ==
    LET Keep(d) == [k \in DOMAIN d \ SeqToSet(cfg.exclude_json_serialize_fields) |-> d[k]]
        Exclude(r) == [d |-> Keep(r.d), p |-> r.p]
    IN Exclude(fs_as_dict(p, item))

\* ------------------------------------------------------ write conversion
\* isinstance(value, type)
IsInstance(v, type) == v.t = type \/ (type = "int" /\ v.t = "bool")

IsoDates == {<<"2020-01-01">>, <<"2020-01-01T10:30">>}

\* __sqlite_date_converter
sqlite_date_converter(v) ==
    IF v.t \in {"datetime", "time"} THEN Ok(v)
    ELSE IF v.t = "str" /\ v.s \in IsoDates THEN Ok([t |-> "datetime", n |-> 0, s |-> v.s])
    ELSE Raise(<<"time data does not match format '%Y-%m-%d'">>)

\* t['method'](value), by the method's name
ApplyMethod(method, v) ==
    CASE method = "bool_to_yn" -> Ok(StrV(<<IF Truthy(v) THEN "y" ELSE "n">>))
      [] method = "encode" ->
            IF v.t = "str" THEN Ok([t |-> "bytes", n |-> 0, s |-> v.s])
            ELSE Raise(<<"object has no attribute 'encode'">>)
      [] OTHER -> sqlite_date_converter(v)

\* __fs_convert_types__ as the class defines it
DefaultConvertTypes ==
    << [type |-> "bool", method |-> "bool_to_yn"], [type |-> "bytes", method |-> "encode"] >>

\* the Python type __get_update_field_type derives from a c_type ("" is None)
UpdateTypeOf(c_type) ==
    CASE c_type \in {"VARCHAR", "CHAR", "TEXT"} -> "str"
      [] c_type = "INTEGER" -> "int"
      [] c_type \in {"FLOAT", "REAL", "NUMERIC"} -> "float"
      [] c_type \in {"DATE", "DATETIME", "TIME", "TIMESTAMP"} -> "datetime"
      [] c_type = "BOOLEAN" -> "bool"
      [] c_type \in {"LOB", "BLOB", "CLOB"} -> "bytes"
      [] OTHER -> ""

\* __get_update_field_type: the type of the first field of the cached
\* field_list named field
get_update_field_type(p, item, field) ==
    LET TypeOf(field_list, hits) ==
            IF hits = {} THEN ""
            ELSE UpdateTypeOf(field_list[CHOOSE i \in hits : \A j \in hits : i <= j].c_type)
        Find(r) ==
            [type |-> TypeOf(r.props.field_list,
                             {i \in 1..Len(r.props.field_list) :
                                 r.props.field_list[i].name = field}),
             p |-> r.p]
    IN Find(get_props(p, item))

\* __convert_value: the first rule for the value's runtime type, else the
\* first rule for the column's type, else the value as it is
convert_value(p, item, name, value) ==
    LET First(hits) == CHOOSE i \in hits : \A j \in hits : i <= j
        ByColumn(r, ct, hits) ==
            [res |-> IF hits # {} THEN ApplyMethod(ct[First(hits)].method, value)
                     ELSE Ok(value),
             p |-> r.p]
        ColumnType(r) ==
            ByColumn(r, r.p.convert_types,
                     {i \in 1..Len(r.p.convert_types) :
                         r.type # "" /\ r.p.convert_types[i].type = r.type})
        ByValue(hits) ==
            IF hits # {}
            THEN [res |-> ApplyMethod(p.convert_types[First(hits)].method, value), p |-> p]
            ELSE ColumnType(get_update_field_type(p, item, name))
    IN ByValue({i \in 1..Len(p.convert_types) : IsInstance(value, p.convert_types[i].type)})

\* setattr(item, name, value)
SetAttr(item, name, value) == [item EXCEPT !.attrs = DictSet(@, name, value)]
\* a property without a setter cannot be assigned
CanSetAttr(item, name) == name \notin SeqToSet(PropertiesOf(TableOf(item)))

\* __fs_before_update__: the default hook returns the data as it is
fs_before_update(item, data_dict) == data_dict

\* the fields a create or an update assigns: the configured list, or every
\* exposed column but the primary key
WriteFields(p, item, configured) ==
    IF Len(configured) # 0 THEN [fields |-> configured, p |-> p]
    ELSE LET Names(cols, r) == [fields |-> [i \in 1..Len(cols) |-> cols[i].name], p |-> r.p]
             Columns(r) ==
                 Names(SelectSeq(r.fields, LAMBDA c : c.is_column /\ c.name # r.props_pk), r)
         IN Columns(get_fields(p, item))

\* ------------------------------------------------------ the update pipeline
\* what a step of a handler leaves: whether it completed (ok) or raised (exc),
\* the value it returned, the instance, the process state, the calls made
\* (setattr, the hooks, the session), and whether the session was committed
Step(ok, exc, ret, item, p, cs, committed) ==
    [ok |-> ok, exc |-> exc, ret |-> ret, item |-> item, p |-> p, calls |-> cs,
     committed |-> committed]

Call(op, arg) == [op |-> op, arg |-> arg]

\* a variant of the loop that records the field's value after it is assigned
RECURSIVE UpdateLoopRecordAfter(_, _, _, _, _)
UpdateLoopRecordAfter(p, item, fields, data_dict, cs) ==
    IF fields = <<>> THEN Step(TRUE, <<>>, TRUE, item, p, cs, FALSE)
    ELSE LET field == Head(fields)
             Record(assigned, p1) ==
                 UpdateLoopRecordAfter(
                     [p1 EXCEPT !.prev_values = DictSet(@, field, GetAttr(assigned, field).v)],
                     assigned, Tail(fields), data_dict,
                     IF field \in DOMAIN data_dict THEN Append(cs, Call("setattr", field))
                     ELSE cs)
             Assign(c) ==
                 IF ~c.res.ok THEN Step(FALSE, c.res.exc, FALSE, item, c.p, cs, FALSE)
                 ELSE IF ~CanSetAttr(item, field)
                 THEN Step(FALSE, <<"can't set attribute">>, FALSE, item, c.p, cs, FALSE)
                 ELSE Record(SetAttr(item, field, c.res.v), c.p)
         IN IF ~GetAttr(item, field).ok
            THEN Step(FALSE, GetAttr(item, field).exc, FALSE, item, p, cs, FALSE)
            ELSE IF field \notin DOMAIN data_dict THEN Record(item, p)
            ELSE Assign(convert_value(p, item, field, data_dict[field]))

\* the loop of fs_update_from_dict: records the field's value, then assigns
\* the converted value when the data holds the field
RECURSIVE UpdateLoop(_, _, _, _, _)
UpdateLoop(p, item, fields, data_dict, cs) ==
    IF fields = <<>> THEN Step(TRUE, <<>>, TRUE, item, p, cs, FALSE)
    ELSE LET field == Head(fields)
             Assign(c) ==
                 IF ~c.res.ok THEN Step(FALSE, c.res.exc, FALSE, item, c.p, cs, FALSE)
                 ELSE IF ~CanSetAttr(item, field)
                 THEN Step(FALSE, <<"can't set attribute">>, FALSE, item, c.p, cs, FALSE)
                 ELSE UpdateLoop(c.p, SetAttr(item, field, c.res.v), Tail(fields), data_dict,
                                 Append(cs, Call("setattr", field)))
             Record(read, p1) ==
                 IF ~read.ok THEN Step(FALSE, read.exc, FALSE, item, p, cs, FALSE)
                 ELSE IF field \notin DOMAIN data_dict
                 THEN UpdateLoop(p1, item, Tail(fields), data_dict, cs)
                 ELSE Assign(convert_value(p1, item, field, data_dict[field]))
             Read(read) ==
                 Record(read, [p EXCEPT !.prev_values = DictSet(@, field, read.v)])
         IN Read(GetAttr(item, field))

\* fs_update_from_dict
fs_update_from_dict(p, item, data_dict) ==
    LET Update(data, wf) == UpdateLoop(wf.p, item, wf.fields, data, <<>>)
    IN Update(fs_before_update(item, data_dict), WriteFields(p, item, cfg.update_fields))

Now == [t |-> "datetime", n |-> 0, s |-> <<"now">>]

\* __fs_update_timestamp__: stamps the timestamp fields the instance has
fs_update_timestamp(item) ==
    [item EXCEPT !.attrs = [k \in DOMAIN @ |->
                               IF k \in SeqToSet(fs_timestamp_fields) THEN Now ELSE @[k]]]

\* request.form, request.values and request.get_json(force=True) of a request
\* whose body is a form or a JSON object
RequestForm(r) == IF r.body = "form" THEN r.data ELSE EmptyDict
RequestValues(r) == RequestForm(r)
GetJsonOk(r) == r.body = "json"

\* The calls a handler makes once the fields are assigned, run in order:
\* __fs_verify__ raises when the instance is not valid, __fs_update_timestamp__
\* stamps the instance, db.session.commit commits the session, and
\* db.session.add and __fs_after_commit__ are recorded with their argument.
RECURSIVE RunCalls(_, _, _)
RunCalls(r, st, todo) ==
    IF todo = <<>> THEN st
    ELSE LET Run(c, logged) ==
                 CASE c.op = "verify" /\ r.verify_raises ->
                        [logged EXCEPT !.ok = FALSE, !.exc = <<"not valid">>, !.ret = FALSE]
                   [] c.op = "timestamp" ->
                        RunCalls(r, [logged EXCEPT !.item = fs_update_timestamp(@)], Tail(todo))
                   [] c.op = "commit" ->
                        RunCalls(r, [logged EXCEPT !.committed = TRUE], Tail(todo))
                   [] OTHER -> RunCalls(r, logged, Tail(todo))
         IN Run(Head(todo), [st EXCEPT !.calls = Append(@, Head(todo))])

\* a variant of the calls of the form path that commits before it verifies
CommitBeforeVerifyCalls ==
    <<Call("timestamp", ""), Call("add", ""), Call("commit", ""), Call("verify", ""),
      Call("after_commit", "self")>>

\* lines 486-490, 507-513 and 535-541: the calls of each path, in order
CreateCalls ==
    <<Call("verify", "create=True"), Call("timestamp", ""), Call("add", ""),
      Call("commit", ""), Call("after_commit", "create=True")>>
UpdateFormCalls ==
    <<Call("verify", ""), Call("timestamp", ""), Call("add", ""),
      Call("commit", ""), Call("after_commit", "self")>>
UpdateJsonCalls ==
    <<Call("verify", ""), Call("timestamp", ""), Call("add", ""),
      Call("commit", ""), Call("after_commit", "")>>

\* fs_request_update_json
fs_request_update_json(p, item, r) ==
    IF ~fs_can_update(item) THEN Step(TRUE, <<>>, FALSE, item, p, <<>>, FALSE)
    ELSE LET Finish(u) == IF ~u.ok THEN u ELSE RunCalls(r, u, UpdateJsonCalls)
         IN Finish(fs_update_from_dict(p, item,
                                       IF GetJsonOk(r) THEN r.data ELSE RequestValues(r)))

\* fs_request_update_form
fs_request_update_form(p, item, r) ==
    IF r.content_type_json \/ r.method = "PUT" THEN fs_request_update_json(p, item, r)
    ELSE LET Finish(u) ==
                 IF ~u.ok THEN u
                 ELSE IF ~fs_can_update(u.item)
                 THEN Step(TRUE, <<>>, FALSE, u.item, u.p, u.calls, FALSE)
                 ELSE RunCalls(r, u, UpdateFormCalls)
         IN Finish(fs_update_from_dict(p, item, RequestForm(r)))

\* ------------------------------------------------------------------ create
\* the loop of fs_request_create_form over the create fields
RECURSIVE CreateLoop(_, _, _, _, _)
CreateLoop(p, item, fields, data, cs) ==
    IF fields = <<>> THEN Step(TRUE, <<>>, TRUE, item, p, cs, FALSE)
    ELSE LET field == Head(fields)
             Assign(c) ==
                 IF ~c.res.ok THEN Step(FALSE, c.res.exc, FALSE, item, c.p, cs, FALSE)
                 ELSE IF ~CanSetAttr(item, field)
                 THEN Step(FALSE, <<"can't set attribute">>, FALSE, item, c.p, cs, FALSE)
                 ELSE CreateLoop(c.p, SetAttr(item, field, c.res.v), Tail(fields), data,
                                 Append(cs, Call("setattr", field)))
         IN IF field \notin DOMAIN data THEN CreateLoop(p, item, Tail(fields), data, cs)
            ELSE Assign(convert_value(p, item, field, data[field]))

\* cls(**kwargs): an instance with no attribute set
NewItem(r) ==
    [table |-> TableName, attrs |-> [c \in ColumnNames |-> None],
     can_access |-> r.new_access, can_update |-> r.new_update]

\* fs_request_create_form: assigns from the JSON body, and from the form when
\* anything of that raised; then verify, timestamp, add, commit, after-commit
fs_request_create_form(p, r, new_id) ==
    LET Committed(done) ==
            IF done.ok THEN [done EXCEPT !.item = SetAttr(done.item, "id", IntV(new_id))]
            ELSE done
        Finish(assigned) ==
            IF ~assigned.ok THEN assigned ELSE Committed(RunCalls(r, assigned, CreateCalls))
        FromForm(from_json, wf) ==
            Finish(IF from_json.ok THEN from_json
                   ELSE CreateLoop(from_json.p, from_json.item, wf.fields, RequestForm(r),
                                   from_json.calls))
        FromJson(new_item, wf) ==
            FromForm(IF ~GetJsonOk(r)
                     THEN Step(FALSE, <<"not json">>, FALSE, new_item, wf.p, <<>>, FALSE)
                     ELSE IF Cardinality(DOMAIN r.data) > 0
                     THEN CreateLoop(wf.p, new_item, wf.fields, r.data, <<>>)
                     ELSE Step(TRUE, <<>>, TRUE, new_item, wf.p, <<>>, FALSE),
                     wf)
    IN FromJson(NewItem(r), WriteFields(p, NewItem(r), cfg.create_fields))

\* ------------------------------------------------------ list serialization
\* the order of the tokens of a string, for the comparison of strings
Collation == <<"Error:", "a", "b", "x">>
TokenOrd(tok) ==
    IF \E i \in 1..Len(Collation) : Collation[i] = tok
    THEN CHOOSE i \in 1..Len(Collation) : Collation[i] = tok
    ELSE 0

RECURSIVE SeqLt(_, _)
SeqLt(a, b) ==
    IF b = <<>> THEN FALSE
    ELSE IF a = <<>> THEN TRUE
    ELSE IF Head(a) = Head(b) THEN SeqLt(Tail(a), Tail(b))
    ELSE TokenOrd(Head(a)) < TokenOrd(Head(b))

\* a < b in Python, for two comparable values
PyLt(a, b) == IF a.t = "str" THEN SeqLt(a.s, b.s) ELSE a.n < b.n

\* one insertion of a stable sort: x goes behind every element that does not
\* sort after it (reverse: behind every element that does not sort before it)
RECURSIVE InsertByKey(_, _, _, _)
InsertByKey(sorted, x, key, reverse) ==
    IF sorted = <<>> THEN <<x>>
    ELSE LET last == sorted[Len(sorted)]
             after == IF reverse THEN PyLt(last[key], x[key]) ELSE PyLt(x[key], last[key])
         IN IF after
            THEN Append(InsertByKey(SubSeq(sorted, 1, Len(sorted) - 1), x, key, reverse), last)
            ELSE Append(sorted, x)

RECURSIVE SortLoop(_, _, _, _)
SortLoop(sorted, todo, key, reverse) ==
    IF todo = <<>> THEN sorted
    ELSE SortLoop(InsertByKey(sorted, Head(todo), key, reverse), Tail(todo), key, reverse)

\* a variant of sorted that ignores reverse
SortedAscending(items, key, reverse) ==
    IF \E i \in 1..Len(items) : key \notin DOMAIN items[i]
    THEN [ok |-> FALSE, exc |-> <<"KeyError: ", key>>, items |-> items]
    ELSE IF \E i, j \in 1..Len(items) : ~PyComparable(items[i][key], items[j][key])
    THEN [ok |-> FALSE, exc |-> <<"'<' not supported between instances">>, items |-> items]
    ELSE [ok |-> TRUE, exc |-> <<>>, items |-> SortLoop(<<>>, items, key, FALSE)]

\* sorted(items, key=lambda i: i[key], reverse=reverse): raises KeyError when an
\* item has no such key and TypeError when two keys cannot be compared
Sorted(items, key, reverse) ==
    IF \E i \in 1..Len(items) : key \notin DOMAIN items[i]
    THEN [ok |-> FALSE, exc |-> <<"KeyError: ", key>>, items |-> items]
    ELSE IF \E i, j \in 1..Len(items) : ~PyComparable(items[i][key], items[j][key])
    THEN [ok |-> FALSE, exc |-> <<"'<' not supported between instances">>, items |-> items]
    ELSE [ok |-> TRUE, exc |-> <<>>, items |-> SortLoop(<<>>, items, key, reverse)]

\* the comprehension of fs_json_list and fs_dict_list: the JSON dict of every
\* instance of the query result that can be accessed
RECURSIVE DictListLoop(_, _, _)
DictListLoop(p, query_result, items) ==
    IF query_result = <<>> THEN [items |-> items, p |-> p]
    ELSE IF ~fs_can_access(Head(query_result))
         THEN DictListLoop(p, Tail(query_result), items)
         ELSE LET Add(r) == DictListLoop(r.p, Tail(query_result), Append(items, r.d))
              IN Add(as_exclude_json_dict(p, Head(query_result)))

fs_dict_list(p, query_result) == DictListLoop(p, query_result, <<>>)

\* a variant of the filter that keeps the items matching every pair
FilterKeepsEveryPair(item, pairs) ==
    \A i \in 1..Len(pairs) : PyEq(DictGet(item, pairs[i][1]), pairs[i][2])

\* the inner loop of the filter of fs_json_list: the item is kept at the first
\* pair of prop_filters it matches
RECURSIVE FilterKeeps(_, _)
FilterKeeps(item, pairs) ==
    IF pairs = <<>> THEN FALSE
    ELSE IF PyEq(DictGet(item, Head(pairs)[1]), Head(pairs)[2]) THEN TRUE
    ELSE FilterKeeps(item, Tail(pairs))

\* fs_json_list: prop_filters is the sequence of the (key, value) pairs of the dict
fs_json_list(p, query_result, prop_filters) ==
    LET Filter(l, desc) ==
            [ok |-> desc.ok, exc |-> desc.exc,
             items |-> IF Len(prop_filters) > 0
                       THEN SelectSeq(desc.items, LAMBDA item : FilterKeeps(item, prop_filters))
                       ELSE desc.items,
             p |-> l.p]
        Descending(l, asc) ==
            Filter(l, IF asc.ok /\ Len(asc.items) > 0 /\ cfg.order_by_field_desc # ""
                      THEN Sorted(asc.items, cfg.order_by_field_desc, TRUE)
                      ELSE asc)
        Ascending(l) ==
            Descending(l, IF Len(l.items) > 0 /\ cfg.order_by_field # ""
                          THEN Sorted(l.items, cfg.order_by_field, FALSE)
                          ELSE [ok |-> TRUE, exc |-> <<>>, items |-> l.items])
    IN Ascending(fs_dict_list(p, query_result))

\* ------------------------------------------------------------ the dispatcher
\* __fs_can_delete__: the default hook aborts with 403 when the instance cannot
\* be updated; a model class may override it with a hook that returns false
fs_can_delete(item) ==
    IF cfg.can_delete = "default"
    THEN IF ~fs_can_update(item) THEN Raise(<<"403 Forbidden">>) ELSE Ok(BoolV(TRUE))
    ELSE Ok(BoolV(FALSE))

\* __return_properties
return_properties(item) ==
    [prop \in SeqToSet(fs_update_properties) |-> fs_property_converter(GetAttr(item, prop).v).v]

\* The responses: jsonify of a dict, of a list or of an envelope; the pair
\* (text, status) the except clause returns; an abort outside the try block;
\* an exception no handler catches.
Response(status, kind, message, item, items, properties, text) ==
    [status |-> status, kind |-> kind, message |-> message, item |-> item, items |-> items,
     properties |-> properties, text |-> text]
JsonItem(d) == Response(200, "item", "", d, <<>>, EmptyDict, <<>>)
JsonList(items) == Response(200, "list", "", EmptyDict, items, EmptyDict, <<>>)
JsonEnvelope(message, d, props) == Response(200, "envelope", message, d, <<>>, props, <<>>)
ErrorText(exc) == Response(fs_http_error_code, "text", "", EmptyDict, <<>>, EmptyDict, exc)
Abort(code) == Response(code, "abort", "", EmptyDict, <<>>, EmptyDict, <<>>)
Uncaught(exc) == Response(500, "exception", "", EmptyDict, <<>>, EmptyDict, exc)
NoResponse == Response(0, "none", "", EmptyDict, <<>>, EmptyDict, <<>>)

\* what a request leaves: the response, the committed rows, the next primary
\* key, the process state and the calls made
Outcome(rsp, rws, nid, p, cs) ==
    [resp |-> rsp, rows |-> rws, next_id |-> nid, p |-> p, calls |-> cs]

RowIndex(rws, item_id) ==
    IF \E i \in 1..Len(rws) : rws[i].attrs["id"] = IntV(item_id)
    THEN CHOOSE i \in 1..Len(rws) : rws[i].attrs["id"] = IntV(item_id)
    ELSE 0

RemoveAt(q, i) == SubSeq(q, 1, i - 1) \o SubSeq(q, i + 1, Len(q))

\* the branch of fs_get_delete_put_post for POST without an item
DispatchCreate(p, r, rws, nid) ==
    LET Reply(c, j) ==
            Outcome(JsonItem(j.d), IF c.committed THEN Append(rws, c.item) ELSE rws,
                    IF c.committed THEN nid + 1 ELSE nid, j.p, c.calls)
        Created(c) ==
            IF ~c.ok THEN Outcome(ErrorText(c.exc), rws, nid, c.p, c.calls)
            ELSE Reply(c, as_exclude_json_dict(c.p, c.item))
    IN Created(fs_request_create_form(p, r, nid))

\* the branch for POST and PUT on an item
DispatchUpdate(p, r, rws, nid, i) ==
    LET Reply(u, j) ==
            Outcome(JsonEnvelope("Updated", j.d, return_properties(u.item)),
                    IF u.committed THEN [rws EXCEPT ![i] = u.item] ELSE rws, nid, j.p, u.calls)
        Updated(u) ==
            IF ~u.ok THEN Outcome(ErrorText(u.exc), rws, nid, u.p, u.calls)
            ELSE Reply(u, as_exclude_json_dict(u.p, u.item))
    IN Updated(fs_request_update_form(p, rws[i], r))

\* the branch for DELETE on an item
DispatchDelete(p, r, rws, nid, i) ==
    LET Reply(j) ==
            Outcome(JsonEnvelope("Deleted", j.d, EmptyDict), RemoveAt(rws, i), nid, j.p,
                    <<Call("delete", ""), Call("commit", "")>>)
        Deleted(allowed) ==
            IF ~allowed.ok THEN Outcome(ErrorText(allowed.exc), rws, nid, p, <<>>)
            ELSE Reply(fs_as_dict(p, rws[i]))
    IN Deleted(fs_can_delete(rws[i]))

\* fs_get_delete_put_post(item_id, user=None, prop_filters); item_id 0 is None
fs_get_delete_put_post(p, r, rws, nid) ==
    LET Dispatch(i) ==
       IF r.item_id # 0 /\ i = 0 THEN Outcome(Abort(404), rws, nid, p, <<>>)
       ELSE IF r.item_id # 0 /\ ~fs_can_access(rws[i]) THEN Outcome(Abort(404), rws, nid, p, <<>>)
       ELSE IF r.item_id = 0 /\ r.method = "GET"
            THEN LET Reply(l) ==
                         Outcome(IF l.ok THEN JsonList(l.items) ELSE Uncaught(l.exc),
                                 rws, nid, l.p, <<>>)
                 IN Reply(fs_json_list(p, rws, r.prop_filters))
       ELSE IF r.item_id = 0
            THEN IF r.method = "POST" THEN DispatchCreate(p, r, rws, nid)
                 ELSE Outcome(ErrorText(<<"405 Method Not Allowed">>), rws, nid, p, <<>>)
       ELSE IF r.method = "GET"
            THEN LET Reply(j) == Outcome(JsonItem(j.d), rws, nid, j.p, <<>>)
                 IN Reply(as_exclude_json_dict(p, rws[i]))
       ELSE IF r.method \in {"POST", "PUT"} THEN DispatchUpdate(p, r, rws, nid, i)
       ELSE DispatchDelete(p, r, rws, nid, i)
    IN Dispatch(RowIndex(rws, r.item_id))

\* ------------------------------------------------------------ the requests
Request(method, item_id, ctj, body, data, pf, vr, na, nu) ==
    [method |-> method, item_id |-> item_id, content_type_json |-> ctj, body |-> body,
     data |-> data, prop_filters |-> pf, verify_raises |-> vr, new_access |-> na,
     new_update |-> nu]
NoRequest == Request("", 0, FALSE, "form", EmptyDict, <<>>, FALSE, TRUE, TRUE)

\* the values a body carries: a JSON body holds typed values, a form holds strings
NameValues == {StrV(<<"a">>)}
JsonRankValues == {IntV(1), StrV(<<"x">>)}
FormRankValues == {StrV(<<"x">>)}

\* the dicts with some of the keys name and rank
Bodies(names, ranks) ==
    {EmptyDict}
    \cup {[k \in {"name"} |-> n] : n \in names}
    \cup {[k \in {"rank"} |-> v] : v \in ranks}
    \cup {[k \in {"name", "rank"} |-> IF k = "name" THEN n ELSE v] : n \in names, v \in ranks}
JsonBodies == Bodies(NameValues, JsonRankValues)
FormBodies == Bodies(NameValues, FormRankValues)

\* the prop_filters a list request is called with
PropFilters ==
    {<<>>, <<<<"name", StrV(<<"a">>)>>>>, <<<<"rank", FloatV(1)>>>>,
     <<<<"name", StrV(<<"a">>)>>, <<"rank", FloatV(1)>>>>}

\* what the hooks answer for an instance: it can be updated only if accessed
HookAnswers == {<<TRUE, TRUE>>, <<TRUE, FALSE>>, <<FALSE, FALSE>>}

\* The configurations of the model class: the exclusion lists and the private
\* fields, alone and together; explicit update and create lists; a
\* __fs_can_delete__ that returns false; the sort fields.
ExclusionConfigs ==
    {[DefaultConfig EXCEPT !.exclude_serialize_fields = es,
                           !.exclude_json_serialize_fields = ej,
                           !.private_fields = pf] :
        es \in {<<>>, <<"label">>}, ej \in {<<>>, <<"name">>}, pf \in {{}, {"rank"}}}
ExplicitListConfigs ==
    {[DefaultConfig EXCEPT !.update_fields = <<"name", "rank">>,
                           !.create_fields = <<"name", "rank">>,
                           !.private_fields = pf] : pf \in {{}, {"rank"}}}
DeleteHookConfigs == {[DefaultConfig EXCEPT !.can_delete = "returns_false"]}
OrderConfigs ==
    {[DefaultConfig EXCEPT !.order_by_field = oa, !.order_by_field_desc = od] :
        oa \in {"", "rank"}, od \in {"", "rank"}}
Configs == ExclusionConfigs \cup ExplicitListConfigs \cup DeleteHookConfigs

\* a call of a method of the mixin on the instance with primary key id
Direct(op, id, field, value, data, result) ==
    [op |-> op, id |-> id, field |-> field, value |-> value, data |-> data, result |-> result]
NoDirect == Direct("", 0, "", None, EmptyDict, Ok(None))

\* the process has started: nothing is cached, no request is being served
Started ==
    /\ model_props = [t \in {} |-> 0]
    /\ convert_types = DefaultConvertTypes
    /\ prev_values = EmptyDict
    /\ req = NoRequest
    /\ calls = <<>>
    /\ resp = NoResponse
    /\ direct = NoDirect
    /\ recorded = EmptyDict
    /\ threads = <<>>
    /\ column_attrs = EmptyDict

Init ==
    /\ cfg \in Configs
    /\ rows = <<>>
    /\ next_id = 1
    /\ Started

\* the dispatcher runs to its response
Serve(r) ==
    LET Reply(out) ==
       /\ req' = [r EXCEPT !.data = EmptyDict]
       /\ resp' = out.resp
       /\ calls' = out.calls
       /\ rows' = out.rows
       /\ next_id' = out.next_id
       /\ model_props' = out.p.model_props
       /\ convert_types' = out.p.convert_types
       /\ prev_values' = out.p.prev_values
       /\ UNCHANGED <<cfg, direct, recorded, threads, column_attrs>>
    IN Reply(fs_get_delete_put_post(ProcState(model_props, convert_types, prev_values),
                                    r, rows, next_id))

\* The requests; one is served when none is being served.
GetList ==
    /\ resp = NoResponse
    /\ \E pf \in PropFilters :
          Serve(Request("GET", 0, FALSE, "form", EmptyDict, pf, FALSE, TRUE, TRUE))

GetItem ==
    /\ resp = NoResponse
    /\ \E id \in 1..MaxId :
          Serve(Request("GET", id, FALSE, "form", EmptyDict, <<>>, FALSE, TRUE, TRUE))

\* the database hands out the primary keys 1..MaxId
CreateItem ==
    /\ resp = NoResponse
    /\ next_id <= MaxId
    /\ \E body \in {"json", "form"}, vr \in BOOLEAN, h \in HookAnswers :
          \E data \in IF body = "json" THEN JsonBodies ELSE FormBodies :
              Serve(Request("POST", 0, body = "json", body, data, <<>>, vr, h[1], h[2]))

UpdateItem ==
    /\ resp = NoResponse
    /\ \E id \in 1..MaxId, method \in {"POST", "PUT"}, body \in {"json", "form"},
           vr \in BOOLEAN :
          \E data \in IF body = "json" THEN JsonBodies ELSE FormBodies :
              Serve(Request(method, id, body = "json", body, data, <<>>, vr, TRUE, TRUE))

DeleteItem ==
    /\ resp = NoResponse
    /\ \E id \in 1..MaxId :
          Serve(Request("DELETE", id, FALSE, "form", EmptyDict, <<>>, FALSE, TRUE, TRUE))

NotAllowed ==
    /\ resp = NoResponse
    /\ \E method \in {"PUT", "DELETE"} :
          Serve(Request(method, 0, FALSE, "form", EmptyDict, <<>>, FALSE, TRUE, TRUE))

\* the response is returned to the client and the request ends; the state of
\* the process and the committed rows stay
Return ==
    /\ resp # NoResponse
    /\ req' = NoRequest
    /\ calls' = <<>>
    /\ resp' = NoResponse
    /\ UNCHANGED <<cfg, rows, next_id, model_props, convert_types, prev_values,
                   direct, recorded, threads, column_attrs>>

Next ==
    GetList \/ GetItem \/ CreateItem \/ UpdateItem \/ DeleteItem \/ NotAllowed \/ Return

Spec == Init /\ [][Next]_vars


\* ------------------------------------------------- list requests on a table
\* The instances a table holds when list requests are served: accessible
\* instances with a rank that serializes, and one with no rank, one with a rank
\* that does not convert, and one that cannot be accessed.
ListItemKinds ==
    {[name |-> n, rank |-> IntV(k), can_access |-> TRUE] :
        n \in {None, StrV(<<"a">>)}, k \in 1..3}
    \cup {[name |-> StrV(<<"a">>), rank |-> v, can_access |-> a] :
            v \in {None, StrV(<<"x">>)}, a \in {TRUE}}
    \cup {[name |-> StrV(<<"a">>), rank |-> IntV(1), can_access |-> FALSE]}

\* the row with primary key id of a kind
ListRow(id, kind) ==
    [table |-> TableName,
     attrs |-> [c \in ColumnNames |->
                   IF c = "id" THEN IntV(id) ELSE IF c = "name" THEN kind.name ELSE kind.rank],
     can_access |-> kind.can_access, can_update |-> kind.can_access]

\* the tables of up to MaxItems rows, with primary keys in the order of insertion
ListTables ==
    UNION {{[i \in 1..n |-> ListRow(i, kinds[i])] : kinds \in [1..n -> ListItemKinds]} :
             n \in 0..MaxItems}

InitList ==
    /\ cfg \in OrderConfigs
    /\ rows \in ListTables
    /\ next_id = Len(rows) + 1
    /\ Started

NextList == GetList \/ Return

SpecList == InitList /\ [][NextList]_vars


\* ------------------------------------------- update calls on instances
\* calls of fs_update_from_dict made in one process
MaxCalls == 2

\* The instances the calls are made on: one of the model class, and a second
\* one of the same class or of the second class.
UpdateInstances ==
    {<<[table |-> TableName, can_access |-> TRUE, can_update |-> TRUE,
        attrs |-> [c \in ColumnNames |->
                      IF c = "id" THEN IntV(1) ELSE IF c = "name" THEN StrV(<<"a">>) ELSE r]],
       [table |-> t, can_access |-> TRUE, can_update |-> TRUE,
        attrs |-> [c \in IF t = TableName THEN ColumnNames ELSE EventColumnNames |->
                      IF c = "id" THEN IntV(2) ELSE IF c = "name" THEN n ELSE None]]>> :
        r \in {None, IntV(1)}, t \in {TableName, EventTableName}, n \in {None, StrV(<<"a">>)}}

\* the dicts the calls are made with
UpdateDicts == Bodies({StrV(<<"b">>)}, {IntV(2), BoolV(TRUE)})

\* the model classes: the derived update fields, or __fs_update_fields__ = ['name']
UpdateConfigs == {DefaultConfig, [DefaultConfig EXCEPT !.update_fields = <<"name">>]}

InitUpdate ==
    /\ cfg \in UpdateConfigs
    /\ rows \in UpdateInstances
    /\ next_id = Len(rows) + 1
    /\ Started

\* item.fs_update_from_dict(data_dict), called on an instance: the instance
\* keeps what the call assigned, whether or not the call raised
UpdateFromDict ==
    /\ Len(calls) < MaxCalls
    /\ \E i \in 1..Len(rows), d \in UpdateDicts :
          LET Done(u) ==
                 /\ rows' = [rows EXCEPT ![i] = u.item]
                 /\ model_props' = u.p.model_props
                 /\ convert_types' = u.p.convert_types
                 /\ prev_values' = u.p.prev_values
                 /\ calls' = Append(calls, Call("fs_update_from_dict", ""))
                 /\ direct' = Direct("fs_update_from_dict", i, "", None, d,
                                     IF u.ok THEN Ok(None) ELSE Raise(u.exc))
                 /\ recorded' = DictSet(recorded, i,
                                         [attrs |-> rows[i].attrs, data |-> d, ok |-> u.ok])
                 /\ UNCHANGED <<cfg, next_id, req, resp, threads, column_attrs>>
          IN Done(fs_update_from_dict(ProcState(model_props, convert_types, prev_values),
                                      rows[i], d))

NextUpdate == UpdateFromDict

SpecUpdate == InitUpdate /\ [][NextUpdate]_vars

\* --------------------------------------------- write conversion of values
\* An instance of each model class, nothing assigned.
ConvertInstances ==
    <<[table |-> TableName, can_access |-> TRUE, can_update |-> TRUE,
       attrs |-> [c \in ColumnNames |-> IF c = "id" THEN IntV(1) ELSE None]],
      [table |-> EventTableName, can_access |-> TRUE, can_update |-> TRUE,
       attrs |-> [c \in EventColumnNames |-> IF c = "id" THEN IntV(2) ELSE None]]>>

\* the values written: booleans, strings (one spells a date), a number, bytes,
\* a datetime and None
ConvertValues ==
    {BoolV(TRUE), BoolV(FALSE), StrV(<<"x">>), StrV(<<"2020-01-01">>), IntV(1), None,
     [t |-> "bytes", n |-> 0, s |-> <<"x">>], Now}

\* the fields written: the columns of the two tables, and a name neither has
ConvertFields == ColumnNames \cup EventColumnNames \cup {"missing"}

\* __fs_convert_types__ as the class defines it, or replaced by a list with a
\* rule for str before the rules of the class
ConvertRuleLists ==
    {DefaultConvertTypes, <<[type |-> "str", method |-> "encode"]>> \o DefaultConvertTypes}

\* the model classes: every column serialized, or the date column excluded
ConvertConfigs ==
    {DefaultConfig, [DefaultConfig EXCEPT !.exclude_serialize_fields = <<"at">>]}

InitConvert ==
    /\ cfg \in ConvertConfigs
    /\ rows = ConvertInstances
    /\ next_id = Len(rows) + 1
    /\ model_props = [t \in {} |-> 0]
    /\ convert_types \in ConvertRuleLists
    /\ prev_values = EmptyDict
    /\ req = NoRequest
    /\ calls = <<>>
    /\ resp = NoResponse
    /\ direct = NoDirect
    /\ recorded = EmptyDict
    /\ threads = <<>>
    /\ column_attrs = EmptyDict

\* item.__convert_value(name, value), called on an instance
ConvertValue ==
    /\ Len(calls) < MaxCalls
    /\ \E i \in 1..Len(rows), name \in ConvertFields, value \in ConvertValues :
          LET Done(c) ==
                 /\ model_props' = c.p.model_props
                 /\ convert_types' = c.p.convert_types
                 /\ prev_values' = c.p.prev_values
                 /\ calls' = Append(calls, Call("convert_value", ""))
                 /\ direct' = Direct("convert_value", i, name, value, EmptyDict, c.res)
                 /\ UNCHANGED <<cfg, rows, next_id, req, resp, recorded, threads,
                                column_attrs>>
          IN Done(convert_value(ProcState(model_props, convert_types, prev_values),
                                rows[i], name, value))

NextConvert == ConvertValue

SpecConvert == InitConvert /\ [][NextConvert]_vars

\* ------------------------------------- concurrent first accesses of a table
\* threads that call __get_props in one process
MaxThreads == 2

\* field_list before the exclusions: the Column objects of the table, then a
\* fresh PermissiveDict for each class property and each relationship
FieldListOf(table) ==
    ColumnsOf(table)
    \o [i \in 1..Len(PropertiesOf(table)) |-> PropertyField(PropertiesOf(table)[i], "PROPERTY")]
    \o [i \in 1..Len(fs_relationship_fields) |->
            PropertyField(fs_relationship_fields[i], "RELATIONSHIP")]

\* props.converters with the custom converters added
ConvertersOf(table) ==
    [c \in DOMAIN BuiltinConverters \cup DOMAIN fs_column_type_converters |->
        IF c \in DOMAIN fs_column_type_converters
        THEN fs_column_type_converters[c] ELSE BuiltinConverters[c]]

\* props.__exclude_fields
ExcludeFields == SeqToSet(<<"fs_as_dict", "fs_as_json">> \o cfg.exclude_serialize_fields)

\* props.primary_key_field: the first primary-key column, 'id' without one
PrimaryKeyField(table) ==
    LET columns == ColumnsOf(table)
        pks == {i \in 1..Len(columns) : columns[i].primary_key}
    IN IF pks = {} THEN "id" ELSE columns[CHOOSE i \in pks : \A j \in pks : i <= j].name

\* props.converters.get(f.c_type) ("" is None)
ConverterGet(table, f) ==
    IF SplitParen(f.type) \in DOMAIN ConvertersOf(table)
    THEN ConvertersOf(table)[SplitParen(f.type)] ELSE ""

\* A thread inside __get_props: the statement it is at, the table of its
\* instance, its index into field_list and the props.field_list it has built.
Thread(pc, table, i, field_list) ==
    [pc |-> pc, table |-> table, i |-> i, field_list |-> field_list]

\* An element of props.field_list: a Column object of the table, which every
\* build of the table shares and which carries c_type and converter itself, or
\* a PermissiveDict of the build.
ColumnRef(f) == [name |-> f.name, is_column |-> TRUE]
OwnField(f, converter) ==
    [name |-> f.name, c_type |-> SplitParen(f.type), is_column |-> FALSE, converter |-> converter]

\* f.c_type and f.converter of a Column object (unset: "")
ColumnAttr(table, name) ==
    IF table \in DOMAIN column_attrs /\ name \in DOMAIN column_attrs[table]
    THEN column_attrs[table][name] ELSE [c_type |-> "", converter |-> ""]

SetColumnAttr(table, name, c_type, converter) ==
    DictSet(column_attrs, table,
            DictSet(IF table \in DOMAIN column_attrs THEN column_attrs[table] ELSE EmptyDict,
                    name, [c_type |-> c_type, converter |-> converter]))

\* what a reader of the cached entry of the table sees now: c.name, c.c_type
\* and c.converter of every element of props.field_list
EntryView(table) ==
    LET props == model_props[table]
        See(f) == IF f.is_column
                  THEN [name |-> f.name, c_type |-> ColumnAttr(table, f.name).c_type,
                        is_column |-> TRUE, converter |-> ColumnAttr(table, f.name).converter]
                  ELSE f
    IN [props EXCEPT !.field_list = [i \in 1..Len(props.field_list) |-> See(props.field_list[i])]]

InitThreads ==
    /\ cfg = DefaultConfig
    /\ rows = <<>>
    /\ next_id = 1
    /\ Started

\* lines 286-287: a thread enters __get_props on an instance of a table and
\* reads the cache; with an entry it returns it, without one it starts a build
ReadCache ==
    /\ Len(threads) < MaxThreads
    /\ \E table \in {TableName, EventTableName} :
          threads' = Append(threads,
                            Thread(IF table \in DOMAIN model_props THEN "return" ELSE "build",
                                   table, 0, <<>>))
    /\ UNCHANGED <<cfg, rows, next_id, model_props, convert_types, prev_values, req, calls,
                   resp, direct, recorded, column_attrs>>

\* lines 288-322: the thread's own props, and on sqlite the append of the date
\* rule to the shared __fs_convert_types__
AppendDateRule ==
    /\ \E k \in 1..Len(threads) :
          /\ threads[k].pc = "build"
          /\ threads' = [threads EXCEPT ![k] = Thread("fields", @.table, 1, <<>>)]
    /\ convert_types' = IF DialectIsSqlite THEN Append(convert_types, sqlite_date_rule)
                        ELSE convert_types
    /\ UNCHANGED <<cfg, rows, next_id, model_props, prev_values, req, calls, resp, direct,
                   recorded, column_attrs>>

\* lines 323-326 and 331: the next field of field_list. An excluded field is
\* skipped. Otherwise c_type and the converter found by the type are assigned
\* to the field, on the Column object itself for a column; a field without a
\* converter whose python type JSON does not support is left for line 330.
SetConverter ==
    /\ \E k \in 1..Len(threads) :
          LET t == threads[k]
              f == FieldListOf(t.table)[t.i]
              found == ConverterGet(t.table, f)
              fallback == found = "" /\ f.python_type \notin fs_json_types
              kept == IF f.is_column THEN ColumnRef(f) ELSE OwnField(f, found)
          IN /\ t.pc = "fields"
             /\ t.i <= Len(FieldListOf(t.table))
             /\ IF f.name \in ExcludeFields
                THEN /\ threads' = [threads EXCEPT ![k].i = @ + 1]
                     /\ UNCHANGED column_attrs
                ELSE /\ column_attrs' =
                            IF f.is_column
                            THEN SetColumnAttr(t.table, f.name, SplitParen(f.type), found)
                            ELSE column_attrs
                     /\ threads' =
                            [threads EXCEPT ![k] =
                                IF fallback THEN Thread("fallback", t.table, t.i, t.field_list)
                                ELSE Thread("fields", t.table, t.i + 1,
                                            Append(t.field_list, kept))]
    /\ UNCHANGED <<cfg, rows, next_id, model_props, convert_types, prev_values, req, calls,
                   resp, direct, recorded>>

\* lines 327-331: str becomes the converter of the field
FallbackToStr ==
    /\ \E k \in 1..Len(threads) :
          LET t == threads[k]
              f == FieldListOf(t.table)[t.i]
          IN /\ t.pc = "fallback"
             /\ column_attrs' =
                    IF f.is_column THEN SetColumnAttr(t.table, f.name, SplitParen(f.type), "str")
                    ELSE column_attrs
             /\ threads' =
                    [threads EXCEPT ![k] =
                        Thread("fields", t.table, t.i + 1,
                               Append(t.field_list,
                                      IF f.is_column THEN ColumnRef(f) ELSE OwnField(f, "str")))]
    /\ UNCHANGED <<cfg, rows, next_id, model_props, convert_types, prev_values, req, calls,
                   resp, direct, recorded>>

\* lines 333-334: the thread stores its props in the shared cache and returns
StoreProps ==
    /\ \E k \in 1..Len(threads) :
          LET t == threads[k]
          IN /\ t.pc = "fields"
             /\ t.i > Len(FieldListOf(t.table))
             /\ model_props' =
                    DictSet(model_props, t.table,
                            [name |-> t.table,
                             primary_key_field |-> PrimaryKeyField(t.table),
                             DIALECT |-> IF DialectIsSqlite THEN "sqlite" ELSE "",
                             field_list |-> t.field_list])
             /\ threads' = [threads EXCEPT ![k] = Thread("return", t.table, 0, <<>>)]
    /\ UNCHANGED <<cfg, rows, next_id, convert_types, prev_values, req, calls, resp, direct,
                   recorded, column_attrs>>

NextThreads ==
    \/ ReadCache
    \/ AppendDateRule
    \/ SetConverter
    \/ FallbackToStr
    \/ StoreProps

SpecThreads == InitThreads /\ [][NextThreads]_vars

\* ------------------------------------------------------------ the properties
\* a request has been served and its response is not yet returned
Served == resp # NoResponse

Called(op) == \E i \in 1..Len(calls) : calls[i].op = op
CountCalls(op) == Cardinality({i \in 1..Len(calls) : calls[i].op = op})
CallIndex(op) == CHOOSE i \in 1..Len(calls) : calls[i].op = op

\* the request served addresses a committed row
OnItem == Served /\ req.item_id # 0 /\ RowIndex(rows, req.item_id) # 0
Target == rows[RowIndex(rows, req.item_id)]

IsCreate == Served /\ req.method = "POST" /\ req.item_id = 0
IsUpdate == OnItem /\ req.method \in {"POST", "PUT"} /\ Target.can_access
IsFormUpdate == IsUpdate /\ req.method = "POST" /\ ~req.content_type_json
IsUpdatedEnvelope == resp.kind = "envelope" /\ resp.message = "Updated"

\* the item mappings of the response
ResponseMappings ==
    IF resp.kind \in {"item", "envelope"} THEN {resp.item}
    ELSE IF resp.kind = "list" THEN SeqToSet(resp.items)
    ELSE {}

\* the JSON mapping of a row, as the process serializes it now
JsonDict(row) ==
    as_exclude_json_dict(ProcState(model_props, convert_types, prev_values), row).d

\* C1: a POST or PUT on an existing item whose __fs_can_update__ returns false
\* never commits, and the failure is surfaced: the response is not the
\* 'Updated' envelope.
C1_DeniedUpdateSurfaced ==
    (IsUpdate /\ ~Target.can_update) => (~Called("commit") /\ ~IsUpdatedEnvelope)

\* a denied update has been answered with the 'Updated' envelope, on the form
\* path after its fields were assigned
C1_DeniedUpdateAnswered ==
    IsFormUpdate /\ ~Target.can_update /\ IsUpdatedEnvelope /\ Called("setattr")

\* C2: a DELETE on an existing, accessible item whose __fs_can_delete__ denies
\* the deletion (the default hook when the item cannot be updated, or a hook
\* that returns false) is answered with 403, and neither db.session.delete nor
\* db.session.commit is called.
C2_DeniedDeleteForbidden ==
    [][(/\ resp = NoResponse
        /\ resp' # NoResponse
        /\ req'.method = "DELETE"
        /\ RowIndex(rows, req'.item_id) # 0
        /\ rows[RowIndex(rows, req'.item_id)].can_access
        /\ (cfg.can_delete = "returns_false"
            \/ ~rows[RowIndex(rows, req'.item_id)].can_update))
       => (/\ resp'.status = 403
           /\ \A i \in 1..Len(calls') : calls'[i].op \notin {"delete", "commit"})]_vars

\* a DELETE has been answered 'Deleted' although the hook returned false
C2_DeletedThoughDenied ==
    /\ Served
    /\ req.method = "DELETE"
    /\ cfg.can_delete = "returns_false"
    /\ resp.message = "Deleted"
    /\ Called("delete")

\* C3: a successful create calls __fs_after_commit__ exactly once, after the
\* commit, with create true; a successful update, on the form path and on the
\* JSON path, calls it exactly once, after the commit, with create false or
\* not given.
C3_AfterCommitOnce ==
    LET Once == /\ CountCalls("after_commit") = 1
                /\ CountCalls("commit") = 1
                /\ CallIndex("commit") < CallIndex("after_commit")
        Flag == calls[CallIndex("after_commit")].arg
    IN /\ (IsCreate /\ resp.kind = "item") => (Once /\ Flag = "create=True")
       /\ (IsUpdate /\ IsUpdatedEnvelope /\ Called("commit"))
             => (Once /\ Flag \in {"", "create=False"})

\* a successful update on the form path has called the hook
C3_FormUpdateCommitted ==
    IsFormUpdate /\ IsUpdatedEnvelope /\ Called("commit") /\ Called("after_commit")

\* C4: on the create path and on both update paths __fs_verify__ is called
\* before db.session.commit, and when it raises neither db.session.add, nor
\* db.session.commit, nor __fs_after_commit__ is called for the request.
C4_VerifyBeforeCommit ==
    (IsCreate \/ IsUpdate) =>
        /\ \A i \in 1..Len(calls) :
              calls[i].op = "commit" => \E j \in 1..(i - 1) : calls[j].op = "verify"
        /\ (req.verify_raises /\ Called("verify"))
              => (~Called("add") /\ ~Called("commit") /\ ~Called("after_commit"))

\* __fs_verify__ has raised on an update whose fields were assigned
C4_VerifyRaised ==
    IsUpdate /\ req.verify_raises /\ Called("setattr") /\ Called("verify")
    /\ resp.kind = "text"

\* the keys no mapping sent to a client may hold
ExcludedKeys ==
    SeqToSet(cfg.exclude_serialize_fields) \cup SeqToSet(cfg.exclude_json_serialize_fields)
    \cup {k \in ColumnNames \cup SeqToSet(ClassProperties) : k \in cfg.private_fields}

\* C5: no item mapping of a response of fs_get_delete_put_post (GET item, GET
\* list, POST create, POST or PUT update, DELETE) holds a key of
\* __fs_exclude_serialize_fields__, a key of __fs_exclude_json_serialize_fields__
\* or a key fs_private_field answers true for.
C5_NoExcludedKey ==
    Served => \A d \in ResponseMappings : DOMAIN d \cap ExcludedKeys = {}

\* a DELETE has been answered with a mapping that holds a key excluded from JSON
C5_DeleteShowsExcluded ==
    /\ Served
    /\ req.method = "DELETE"
    /\ resp.message = "Deleted"
    /\ DOMAIN resp.item \cap SeqToSet(cfg.exclude_json_serialize_fields) # {}

\* C6: a field fs_private_field answers true for is never assigned by
\* fs_update_from_dict or fs_request_create_form, whatever the body holds, with
\* the derived field list and with a configured __fs_update_fields__ or
\* __fs_create_fields__.
C6_PrivateNeverAssigned ==
    (IsCreate \/ IsUpdate) =>
        \A i \in 1..Len(calls) :
            calls[i].op = "setattr" => calls[i].arg \notin cfg.private_fields

\* a private field of a configured update list has been assigned
C6_PrivateAssigned ==
    /\ IsUpdate
    /\ cfg.update_fields # <<>>
    /\ \E i \in 1..Len(calls) : calls[i].op = "setattr" /\ calls[i].arg \in cfg.private_fields

\* the responses that show a committed row as it is: GET of an item, of the
\* list, and the response to a create
ShowsRows == Served /\ resp.kind \in {"item", "list"}
RowOf(d) == rows[RowIndex(rows, d["id"].n)]

\* C7: fs_as_dict, and every mapping derived from it, maps an exposed field
\* whose value is None to the empty string and never to None, with and without
\* a converter for the field.
C7_NoneIsEmptyString ==
    /\ Served => \A d \in ResponseMappings : \A k \in DOMAIN d : d[k] # None
    /\ ShowsRows =>
          \A d \in ResponseMappings : \A k \in DOMAIN d :
              GetAttr(RowOf(d), k).v = None => d[k] = StrV(<<>>)

\* an item is shown whose rank, a field with a converter, and whose name, a
\* field with none, are None
C7_NoneSerialized ==
    /\ ShowsRows
    /\ resp.kind = "item"
    /\ {"name", "rank"} \subseteq DOMAIN resp.item
    /\ RowOf(resp.item).attrs["rank"] = None
    /\ RowOf(resp.item).attrs["name"] = None
    /\ resp.item["rank"] = StrV(<<>>)
    /\ resp.item["name"] = StrV(<<>>)

\* the text holds the token
HasToken(v, tok) == v.t = "str" /\ \E i \in 1..Len(v.s) : v.s[i] = tok

\* C8: when the converter of a field raises, fs_as_dict does not raise: the
\* field maps to a string that begins with 'Error:' and holds the text of the
\* exception, the name of the field and its type, and every other exposed
\* field is present with its converted value.
C8_ConverterErrorInline ==
    ShowsRows =>
        \A d \in ResponseMappings :
            ("rank" \in DOMAIN d /\ ~PyFloat(RowOf(d).attrs["rank"]).ok
                                 /\ RowOf(d).attrs["rank"] # None)
            => /\ d["rank"].t = "str"
               /\ Head(d["rank"].s) = "Error:"
               /\ \A i \in 1..Len(PyFloat(RowOf(d).attrs["rank"]).exc) :
                      HasToken(d["rank"], PyFloat(RowOf(d).attrs["rank"]).exc[i])
               /\ HasToken(d["rank"], "rank")
               /\ HasToken(d["rank"], "NUMERIC")
               /\ d["id"] = RowOf(d).attrs["id"]
               /\ "name" \in DOMAIN d =>
                     d["name"] = IF RowOf(d).attrs["name"] = None THEN StrV(<<>>)
                                 ELSE RowOf(d).attrs["name"]
               /\ "label" \in DOMAIN d =>
                     d["label"] = IF RowOf(d).attrs["name"] = None THEN StrV(<<>>)
                                  ELSE RowOf(d).attrs["name"]

\* an item is shown whose rank does not convert, beside its name
C8_ConverterRaised ==
    /\ ShowsRows
    /\ resp.kind = "item"
    /\ {"name", "rank"} \subseteq DOMAIN resp.item
    /\ RowOf(resp.item).attrs["rank"] = StrV(<<"x">>)
    /\ RowOf(resp.item).attrs["name"] = StrV(<<"a">>)
    /\ Head(resp.item["rank"].s) = "Error:"

\* the items of a list response are the rows of Expected, each once, as they
\* serialize
ListShows(Expected(_)) ==
    /\ {resp.items[i]["id"] : i \in 1..Len(resp.items)}
          = {rows[j].attrs["id"] : j \in {j \in 1..Len(rows) : Expected(rows[j])}}
    /\ \A i, j \in 1..Len(resp.items) : resp.items[i]["id"] = resp.items[j]["id"] => i = j
    /\ \A i \in 1..Len(resp.items) : resp.items[i] = JsonDict(RowOf(resp.items[i]))

\* the items of a list response are in the order of the query result
InputOrder ==
    \A i, j \in 1..Len(resp.items) : i < j => resp.items[i]["id"].n < resp.items[j]["id"].n

MatchesPair(row, pair) == PyEq(DictGet(JsonDict(row), pair[1]), pair[2])
MatchesEvery(row) ==
    \A i \in 1..Len(req.prop_filters) : MatchesPair(row, req.prop_filters[i])
MatchesSome(row) ==
    req.prop_filters = <<>>
    \/ \E i \in 1..Len(req.prop_filters) : MatchesPair(row, req.prop_filters[i])

IsList == Served /\ resp.kind = "list"
Unsorted == cfg.order_by_field = "" /\ cfg.order_by_field_desc = ""

\* C9, as stated: fs_json_list returns exactly the items that pass
\* __fs_can_access__ and whose mapping has the given value under the key of
\* every pair of prop_filters, each once, in the order of the input unless a
\* sort field is configured.
C9_FilterEveryPair ==
    IsList => /\ ListShows(LAMBDA row : fs_can_access(row) /\ MatchesEvery(row))
              /\ Unsorted => InputOrder

\* C9, amended: fs_json_list returns exactly the items that pass
\* __fs_can_access__ and, when prop_filters is given, whose mapping has the
\* given value under the key of at least one pair of prop_filters; each once,
\* in the order of the input unless a sort field is configured.
C9_FilterSomePair ==
    IsList => /\ ListShows(LAMBDA row : fs_can_access(row) /\ MatchesSome(row))
              /\ Unsorted => InputOrder

\* a list filtered by two pairs shows an item that matches one pair only, and
\* leaves out an accessible row and a row that cannot be accessed
C9_FilteredList ==
    /\ IsList
    /\ Len(req.prop_filters) = 2
    /\ \E i \in 1..Len(resp.items) : ~MatchesEvery(RowOf(resp.items[i]))
    /\ \E j \in 1..Len(rows) : fs_can_access(rows[j]) /\ ~MatchesSome(rows[j])
    /\ \E j \in 1..Len(rows) : ~fs_can_access(rows[j])

Nondecreasing(key) ==
    \A i, j \in 1..Len(resp.items) :
        i < j => ~PyLt(resp.items[j][key], resp.items[i][key])
Nonincreasing(key) ==
    \A i, j \in 1..Len(resp.items) :
        i < j => ~PyLt(resp.items[i][key], resp.items[j][key])
IsWholeList == IsList /\ req.prop_filters = <<>>

UpdateReturned == direct.op = "fs_update_from_dict" /\ direct.result.ok
Updated == rows[direct.id]
NowState == ProcState(model_props, convert_types, prev_values)

\* the updatable fields of the instance that the data of the call holds
UpdatedFields ==
    SeqToSet(WriteFields(NowState, Updated, cfg.update_fields).fields)
    \cap DOMAIN fs_before_update(Updated, direct.data)

\* C11: after fs_update_from_dict(d) on an instance, for every updatable field
\* f that the mapping returned by __fs_before_update__ holds, the record
\* __fs_previous_field_value__[f] is the value the instance held for f before
\* the call, and the instance's f is the write-converted d[f].
C11_PreviousThenNew ==
    UpdateReturned =>
        \A f \in UpdatedFields :
            /\ f \in DOMAIN prev_values
            /\ prev_values[f] = recorded[direct.id].attrs[f]
            /\ Updated.attrs[f]
                  = convert_value(NowState, Updated, f,
                                  fs_before_update(Updated, direct.data)[f]).res.v

\* an instance named 'a' was updated with the name 'b' and a boolean rank: the
\* record holds 'a', the instance the name 'b' and the rank 'y'
C11_NameReplaced ==
    /\ UpdateReturned
    /\ UpdatedFields = {"name", "rank"}
    /\ recorded[direct.id].attrs["name"] = StrV(<<"a">>)
    /\ direct.data["name"] = StrV(<<"b">>)
    /\ direct.data["rank"] = BoolV(TRUE)
    /\ prev_values["name"] = StrV(<<"a">>)
    /\ Updated.attrs["name"] = StrV(<<"b">>)
    /\ Updated.attrs["rank"] = StrV(<<"y">>)


\* the rules of a list whose type the value is an instance of
RuntimeRules(rules, value) == {i \in 1..Len(rules) : IsInstance(value, rules[i].type)}

\* the coarse type of the column of the instance's table that a call names
DeclaredType(call) ==
    LET columns == ColumnsOf(TableOf(rows[call.id]))
        named == {i \in 1..Len(columns) : columns[i].name = call.field}
    IN IF named = {} THEN ""
       ELSE UpdateTypeOf(SplitParen(columns[CHOOSE i \in named : TRUE].type))

\* the rules of a list for a declared type
ColumnRules(rules, type) == {i \in 1..Len(rules) : type # "" /\ rules[i].type = type}

FirstOf(hits) == CHOOSE i \in hits : \A j \in hits : i <= j
Converted == direct.op = "convert_value"

\* what the order of the rules gives for a call: the list is read as it is when
\* the call starts for the runtime type, and as it is when the call ends for
\* the column
RuleOrderResult(before, after, call) ==
    IF RuntimeRules(before, call.value) # {}
    THEN ApplyMethod(before[FirstOf(RuntimeRules(before, call.value))].method, call.value)
    ELSE IF ColumnRules(after, DeclaredType(call)) # {}
    THEN ApplyMethod(after[FirstOf(ColumnRules(after, DeclaredType(call)))].method, call.value)
    ELSE Ok(call.value)

\* C12: __convert_value applies exactly one rule: the first rule of
\* __fs_convert_types__ whose type matches the runtime type of the value;
\* otherwise the first rule whose type is the coarse declared type of the
\* destination column; otherwise it returns the value unchanged. A rule for
\* the runtime type wins over a rule for the column: a boolean becomes 'y' or
\* 'n' whatever the column.
C12_RuleOrder ==
    [][(calls' # calls /\ direct'.op = "convert_value") =>
          /\ direct'.result = RuleOrderResult(convert_types, convert_types', direct')
          /\ direct'.value.t = "bool"
                => direct'.result = Ok(StrV(<<IF direct'.value.n = 1 THEN "y" ELSE "n">>))]_vars

\* a string that spells a date was written to the date column of a class that
\* excludes the column from serialization, and came back unchanged
C12_ExcludedColumnUnconverted ==
    /\ Converted
    /\ direct.field = "at"
    /\ TableOf(rows[direct.id]) = EventTableName
    /\ cfg.exclude_serialize_fields = <<"at">>
    /\ convert_types = DefaultConvertTypes \o <<sqlite_date_rule>>
    /\ direct.value = StrV(<<"2020-01-01">>)
    /\ direct.result = Ok(direct.value)

\* the threads that have returned from __get_props with the props of the table
Returned(table) == {k \in 1..Len(threads) : threads[k].pc = "return" /\ threads[k].table = table}

\* the properties a build of the table on its own gives
SequentialBuild(table) == BuildProps([table |-> table])

\* every thread that holds the props of a table reads through them, now, what
\* a build of the table on its own gives
EntriesComplete ==
    \A table \in {TableName, EventTableName} :
        Returned(table) # {} =>
            table \in DOMAIN model_props /\ EntryView(table) = SequentialBuild(table)

\* occurrences of the sqlite date rule in __fs_convert_types__
DateRuleCount ==
    Cardinality({i \in 1..Len(convert_types) : convert_types[i] = sqlite_date_rule})

\* C13: building the Table Metadata is idempotent under concurrency. Under every
\* interleaving of the threads that access a table for the first time, for one
\* table or several, the cache holds for each table a complete entry equal to
\* the one a sequential build gives, no thread that holds an entry reads a
\* partially built one, and __fs_convert_types__ contains the date rule of the
\* dialect at most once.
C13_BuildIdempotent == EntriesComplete /\ DateRuleCount <= 1

\* two threads raced through the first access of one table, both returned, and
\* the shared rule list holds the date rule twice
C13_DateRuleTwice ==
    /\ Len(threads) = 2
    /\ threads[1].table = threads[2].table
    /\ \A k \in 1..2 : threads[k].pc = "return"
    /\ DateRuleCount = 2

\* the updatable fields of an instance that the data of its last update held
LastUpdatedFields(i) ==
    SeqToSet(WriteFields(NowState, rows[i], cfg.update_fields).fields)
    \cap DOMAIN fs_before_update(rows[i], recorded[i].data)

\* C14: the Previous-Value Records of different instances do not interfere.
\* After an update on an instance X has returned, the record read through X,
\* self.__fs_previous_field_value__, holds for every field of that update the
\* value X held before it, until the next update on X, whatever calls of
\* fs_update_from_dict are made in between on other instances of the same or of
\* another model class.
C14_RecordsDoNotInterfere ==
    \A i \in DOMAIN recorded :
        recorded[i].ok =>
            \A f \in LastUpdatedFields(i) :
                f \in DOMAIN prev_values /\ prev_values[f] = recorded[i].attrs[f]

\* the instance of the first class, named 'a', was updated, then the unnamed
\* instance of the second class: the record read through the first instance
\* holds the second instance's previous name, None
C14_OtherInstanceOverwrites ==
    /\ DOMAIN recorded = {1, 2}
    /\ direct.op = "fs_update_from_dict" /\ direct.id = 2
    /\ recorded[1].ok /\ recorded[2].ok
    /\ TableOf(rows[2]) = EventTableName
    /\ "name" \in LastUpdatedFields(1) \cap LastUpdatedFields(2)
    /\ recorded[1].attrs["name"] = StrV(<<"a">>)
    /\ recorded[2].attrs["name"] = None
    /\ prev_values["name"] = None

====
